---- MODULE Spec2Model ----
(***************************************************************************)
(* A model of package lockedfile (cmd/go/internal/lockedfile): files whose *)
(* contents should only change atomically.  A File is a locked *os.File;   *)
(* OpenFile acquires the lock, Close releases it, and a finalizer reports  *)
(* a File that became unreachable without a call to Close.                 *)
(*                                                                         *)
(* The platform primitive (openFile / closeFile) is not part of            *)
(* lockedfile.go; it is modelled from its contract.  openFile opens the    *)
(* named file, creating it if the flags say so, then waits for the lock    *)
(* (lockedfile.go:109-110: "opens the named file (creating it ...), then   *)
(* write-locks it and overwrites it"); a file it has created is there,     *)
(* empty, while the call waits and whether or not the lock is granted.     *)
(* The truncation of O_TRUNC acts when the lock is granted.  The caller    *)
(* gets a descriptor that is open and locked, or an error and no           *)
(* descriptor.  closeFile unlocks and closes as one step.                  *)
(***************************************************************************)
EXTENDS Integers, Sequences, FiniteSets, TLC

\* ------------------------------------------------------------- bounds
\* File objects allocated in a run, bytes of a content, calls of Close on
\* one File.
MaxHandles == 2
MaxLen == 2
MaxCloses == 2

\* Two processes contend for one path.
Procs == {1, 2}
Paths == {1}
Handles == 1..MaxHandles
\* The empty name and the nil *File.
NoPath == 0
NoHandle == 0

\* The contents a caller writes and a file starts with: the byte at offset
\* i - 1 is i, so that a byte that moved or was lost shows.  0 is the byte a
\* hole in a file reads as.
HoleByte == 0
Content(k) == [i \in 1..k |-> i]
Contents == {Content(k) : k \in 0..MaxLen}
\* What a file that exists at the start holds.
InitContent == Content(MaxLen)
\* The bytes a caller passes to f.Write and f.WriteAt, the offsets it seeks
\* and writes at, the sizes it truncates to.
Bytes == 1..MaxLen
Offsets == 0..MaxLen

\* ------------------------------------------------------------- errors
\* Every error is an *os.PathError-shaped record; nil is NoErr.
PathError(op, path, err) == [Op |-> op, Path |-> path, Err |-> err]
NoErr == PathError("", NoPath, "nil")
ErrNotExist(n) == PathError("open", n, "ENOENT")
ErrLock(n) == PathError("lock", n, "ENOLCK")
ErrRelease(n) == PathError("close", n, "EIO")
ErrRead(n) == PathError("read", n, "EIO")
ErrCopy(n) == PathError("write", n, "EIO")
\* lockedfile.go:85-89
ErrAlreadyClosed(n) == PathError("close", n, "ErrClosed")
\* What a method of the embedded *os.File returns on a descriptor that is
\* closed, or not open for the access the method needs (ftruncate reports
\* EINVAL for that, read and write EBADF); io.EOF.
ErrFileClosed(op, n) == PathError(op, n, "ErrClosed")
ErrBadAccess(op, n) == PathError(op, n, IF op = "truncate" THEN "EINVAL" ELSE "EBADF")
ErrEOF == PathError("", NoPath, "EOF")

\* ------------------------------------------------------------- flags
\* Open asking for read-write access.
OpenFlag_ReadWrite == [acc |-> "O_RDWR", create |-> FALSE, trunc |-> FALSE]
\* lockedfile.go:62
OpenFlag == [acc |-> "O_RDONLY", create |-> FALSE, trunc |-> FALSE]
\* Create without O_TRUNC.
CreateFlag_NoTrunc == [acc |-> "O_RDWR", create |-> TRUE, trunc |-> FALSE]
\* Create asking for read-only access.
CreateFlag_ReadOnly == [acc |-> "O_RDONLY", create |-> TRUE, trunc |-> TRUE]
\* lockedfile.go:67
CreateFlag == [acc |-> "O_RDWR", create |-> TRUE, trunc |-> TRUE]
\* Edit asking for read-only access.
EditFlag_ReadOnly == [acc |-> "O_RDONLY", create |-> TRUE, trunc |-> FALSE]
\* lockedfile.go:76
EditFlag == [acc |-> "O_RDWR", create |-> TRUE, trunc |-> FALSE]
\* Write opening without O_TRUNC.
WriteFlag_NoTrunc == [acc |-> "O_WRONLY", create |-> TRUE, trunc |-> FALSE]
\* lockedfile.go:112
WriteFlag == [acc |-> "O_WRONLY", create |-> TRUE, trunc |-> TRUE]

\* The flags a caller can pass to OpenFile, lockedfile.go:38.
Flags == [acc : {"O_RDONLY", "O_WRONLY", "O_RDWR"}, create : BOOLEAN, trunc : BOOLEAN]

IsWriteFlag(flag) == flag.acc \in {"O_WRONLY", "O_RDWR"}

\* No flags: the frame of a call that is not inside openFile.
NoFlag == [acc |-> "none", create |-> FALSE, trunc |-> FALSE]

VARIABLES
  files,    \* the file system: path -> [exists, data]
  desc,     \* the OS descriptor behind each File object: [live, acc, lock, path, off]
  handle,   \* the File objects, in allocation order
  pc,       \* where each process is: idle, or inside a call
  call,     \* the frame of the call a process is inside
  ret,      \* the return the last step made, if it made one: who, what, results
  fatal     \* the fatal diagnostic that aborted a process, if any

vars == <<files, desc, handle, pc, call, ret, fatal>>

\* ------------------------------------------------------------- records
NoFile == [exists |-> FALSE, data |-> << >>]
FileOf(c) == [exists |-> TRUE, data |-> c]

\* acc is the access mode the descriptor was opened with.
NoDesc == [live |-> FALSE, acc |-> "none", lock |-> "none", path |-> NoPath, off |-> 0]

\* A File object: st is free (not allocated), opening (inside OpenFile),
\* failed (OpenFile returned nil), returned, or reclaimed (unreachable and
\* collected).  name, op, owner, ncloses and c record the call that made it
\* and the calls of Close on it; op is Read or Write for the File those
\* functions open and close themselves, and OpenFile for a File returned to
\* the caller (Open, Create and Edit return what OpenFile returns).
FreeHandle ==
  [st |-> "free", name |-> NoPath, op |-> "none", owner |-> 0,
   closed |-> FALSE, file |-> FALSE, fin |-> FALSE, reach |-> FALSE,
   ncloses |-> 0, c |-> << >>]

NoWrite == [ok |-> FALSE, c |-> << >>]

\* The frame of a call: flag is what OpenFile passed to openFile, while the
\* call is inside it; src is what Write has still to copy, buf what ReadAll
\* has read; after is the successful Write whose return the call directly
\* follows.
NoCall ==
  [op |-> "none", name |-> NoPath, h |-> NoHandle, flag |-> NoFlag,
   src |-> << >>, buf |-> << >>, after |-> NoWrite]

\* h is the *File returned (NoHandle for nil) and g the File object the call
\* worked on; rel is what the primitive reported in the call (acquire's error,
\* or release's), cerr what io.Copy returned; rels is how many times a call
\* of Close invoked the primitive's release; after is the successful Write
\* that a Read directly follows.
NoRet ==
  [p |-> 0, op |-> "none", name |-> NoPath, h |-> NoHandle, g |-> NoHandle,
   err |-> NoErr, rel |-> NoErr, cerr |-> NoErr, rels |-> 0, data |-> << >>,
   c |-> << >>, after |-> NoWrite]

\* exited: the process the panic ended is gone, its descriptors with it.
NoFatal == [fired |-> FALSE, path |-> NoPath, h |-> NoHandle, exited |-> FALSE]

Init ==
  /\ files \in [Paths -> {NoFile, FileOf(InitContent)}]
  /\ desc = [h \in Handles |-> NoDesc]
  /\ handle = [h \in Handles |-> FreeHandle]
  /\ pc = [p \in Procs |-> "idle"]
  /\ call = [p \in Procs |-> NoCall]
  /\ ret = NoRet
  /\ fatal = [p \in Procs |-> NoFatal]

\* ------------------------------------------------- platform primitive
\* acquire(path, flags, perm): the errors its open can end with.  A missing
\* file opened without the create flag is not found.
AcquireErrors(file, n, flag) ==
  IF ~file.exists /\ ~flag.create THEN {ErrNotExist(n)} ELSE {}

\* The file once the open of acquire has succeeded, before the lock is
\* asked for: the create flag has created a missing file, empty; a file that
\* exists keeps its bytes.
OpenedFile(file, flag) ==
  IF ~file.exists /\ flag.create THEN FileOf(<< >>) ELSE file

\* The file once acquire has been granted its lock: the truncate flag has
\* emptied it.
AcquiredFile(file, flag) ==
  IF flag.trunc THEN FileOf(<< >>) ELSE file

\* The lock acquire applies to a descriptor opened with access mode acc:
\* exclusive for write access, shared for read-only.
LockMode(acc) == IF acc \in {"O_WRONLY", "O_RDWR"} THEN "exclusive" ELSE "shared"

\* The OS lock table grants `mode` on path n to descriptor h.
Compatible(D, n, h, mode) ==
  \A g \in Handles \ {h} :
    (D[g].live /\ D[g].path = n /\ D[g].lock # "none")
      => (mode = "shared" /\ D[g].lock = "shared")

\* The descriptor acquire returns: open with the access mode of the flags,
\* and locked in the mode that goes with it.
AcquiredDesc(n, flag) ==
  [live |-> TRUE, acc |-> flag.acc, lock |-> LockMode(flag.acc), path |-> n, off |-> 0]

\* release: unlocks and closes the descriptor as one step, and reports rel;
\* whatever it reports, the descriptor is closed and its lock gone with it.
\* calls counts the invocation.
closeFile(d, rel) == [d |-> NoDesc, err |-> rel, calls |-> 1]

ReleaseErrors(n) == {NoErr, ErrRelease(n)}

\* ------------------------------------------------------ lockedfile.go
\* Whose File it is: Read's, Write's, or the caller's.
Maker(op) == IF op \in {"Read", "Write"} THEN op ELSE "OpenFile"

\* f = new(File), lockedfile.go:40 (with what the call was, for the record).
NewFile(p, n, op, c) ==
  [FreeHandle EXCEPT !.st = "opening", !.name = n, !.op = Maker(op),
                     !.owner = p, !.c = c]

\* OpenFile setting the finalizer before it looks at openFile's error.
OpenFile_ArmsFirst(f, id, err) ==
  IF err # NoErr
  THEN [f |-> [FreeHandle EXCEPT !.st = "failed", !.fin = TRUE], h |-> NoHandle, err |-> err]
  ELSE [f |-> [f EXCEPT !.st = "returned", !.file = TRUE, !.fin = TRUE, !.reach = TRUE],
        h |-> id, err |-> NoErr]

\* OpenFile setting no finalizer.
OpenFile_NoFinalizer(f, id, err) ==
  IF err # NoErr
  THEN [f |-> [FreeHandle EXCEPT !.st = "failed"], h |-> NoHandle, err |-> err]
  ELSE [f |-> [f EXCEPT !.st = "returned", !.file = TRUE, !.reach = TRUE],
        h |-> id, err |-> NoErr]

\* OpenFile once openFile has returned err, lockedfile.go:43-57: the File
\* object, the pointer returned (NoHandle for nil) and the error returned.
OpenFile(f, id, err) ==
  IF err # NoErr
  THEN [f |-> [FreeHandle EXCEPT !.st = "failed"], h |-> NoHandle, err |-> err]
  ELSE [f |-> [f EXCEPT !.st = "returned", !.file = TRUE, !.fin = TRUE, !.reach = TRUE],
        h |-> id, err |-> NoErr]

\* Close marking the File closed only when the release succeeded.
FileClose_ClosedOnSuccess(f, d, rel) ==
  IF f.closed
  THEN [f |-> [f EXCEPT !.ncloses = @ + 1], d |-> d, err |-> ErrAlreadyClosed(f.name),
        rels |-> 0]
  ELSE LET r == closeFile(d, rel)
       IN  [f |-> [f EXCEPT !.closed = (r.err = NoErr), !.fin = FALSE, !.ncloses = @ + 1],
            d |-> r.d, err |-> r.err, rels |-> r.calls]

\* Close that marks the File closed and never releases the descriptor.
FileClose_NoRelease(f, d, rel) ==
  IF f.closed
  THEN [f |-> [f EXCEPT !.ncloses = @ + 1], d |-> d, err |-> ErrAlreadyClosed(f.name),
        rels |-> 0]
  ELSE [f |-> [f EXCEPT !.closed = TRUE, !.fin = FALSE, !.ncloses = @ + 1],
        d |-> d, err |-> NoErr, rels |-> 0]

\* Close returning the release error before it clears the finalizer.
FileClose_DisarmOnSuccess(f, d, rel) ==
  IF f.closed
  THEN [f |-> [f EXCEPT !.ncloses = @ + 1], d |-> d, err |-> ErrAlreadyClosed(f.name),
        rels |-> 0]
  ELSE LET r == closeFile(d, rel)
       IN  [f |-> [f EXCEPT !.closed = TRUE, !.fin = (r.err # NoErr), !.ncloses = @ + 1],
            d |-> r.d, err |-> r.err, rels |-> r.calls]

\* Close clearing the closed flag when it finds it set.
FileClose_Toggles(f, d, rel) ==
  IF f.closed
  THEN [f |-> [f EXCEPT !.closed = FALSE, !.ncloses = @ + 1], d |-> d,
        err |-> ErrAlreadyClosed(f.name), rels |-> 0]
  ELSE LET r == closeFile(d, rel)
       IN  [f |-> [f EXCEPT !.closed = TRUE, !.fin = FALSE, !.ncloses = @ + 1],
            d |-> r.d, err |-> r.err, rels |-> r.calls]

\* Close releasing the descriptor again when the File is already closed.
FileClose_ReleasesAgain(f, d, rel) ==
  LET r == closeFile(d, rel)
  IN  IF f.closed
      THEN [f |-> [f EXCEPT !.ncloses = @ + 1], d |-> r.d,
            err |-> ErrAlreadyClosed(f.name), rels |-> r.calls]
      ELSE [f |-> [f EXCEPT !.closed = TRUE, !.fin = FALSE, !.ncloses = @ + 1],
            d |-> r.d, err |-> r.err, rels |-> r.calls]

\* (*File).Close, lockedfile.go:83-96, on File f with descriptor d, the
\* primitive's release reporting rel; rels is how many times the call
\* invoked the release.
FileClose(f, d, rel) ==
  IF f.closed
  THEN [f |-> [f EXCEPT !.ncloses = @ + 1], d |-> d, err |-> ErrAlreadyClosed(f.name),
        rels |-> 0]
  ELSE LET r == closeFile(d, rel)
       IN  [f |-> [f EXCEPT !.closed = TRUE, !.fin = FALSE, !.ncloses = @ + 1],
            d |-> r.d, err |-> r.err, rels |-> r.calls]

\* One read of the descriptor at offset off: the byte there, or the end of
\* the file as it is now.
ReadAt(data, off) ==
  IF off < Len(data) THEN [eof |-> FALSE, b |-> << data[off + 1] >>]
  ELSE [eof |-> TRUE, b |-> << >>]

\* ioutil.ReadAll(f) returning: what its reads got (buf), with nil when the
\* last read met the end of the file and with the error when a read failed.
ReadAll(buf, readErr) == [data |-> buf, err |-> readErr]

\* Read closing the File only when ReadAll succeeded.
ReadBody_CloseOnSuccess(f, d, buf, readErr, rel) ==
  LET r  == ReadAll(buf, readErr)
      cl == FileClose(f, d, rel)
  IN  IF r.err = NoErr
      THEN [f |-> cl.f, d |-> cl.d, data |-> r.data, err |-> r.err]
      ELSE [f |-> f, d |-> d, data |-> r.data, err |-> r.err]

\* Read after a successful Open, lockedfile.go:104-106: ReadAll has
\* returned, then the deferred Close, whose error is dropped.
ReadBody(f, d, buf, readErr, rel) ==
  LET r  == ReadAll(buf, readErr)
      cl == FileClose(f, d, rel)
  IN  [f |-> cl.f, d |-> cl.d, data |-> r.data, err |-> r.err]

\* One write of io.Copy: byte b at offset off of the file (a hole reads 0).
WriteAt(data, off, b) ==
  [i \in 1..(IF off + 1 > Len(data) THEN off + 1 ELSE Len(data)) |->
     IF i = off + 1 THEN b
     ELSE IF i <= Len(data) THEN data[i] ELSE HoleByte]

\* (*os.File).Truncate(size): the file cut to size, or grown to it with a hole.
TruncateTo(data, size) ==
  [i \in 1..size |-> IF i <= Len(data) THEN data[i] ELSE HoleByte]

\* The error of a method of the embedded *os.File called on descriptor d of
\* the File named n, when the method needs one of the access modes in need.
MethodErr(d, op, n, need) ==
  IF ~d.live THEN ErrFileClosed(op, n)
  ELSE IF d.acc \notin need THEN ErrBadAccess(op, n)
  ELSE NoErr

WriteAccess == {"O_WRONLY", "O_RDWR"}
ReadAccess == {"O_RDONLY", "O_RDWR"}
AnyAccess == {"O_RDONLY", "O_WRONLY", "O_RDWR"}

\* Write letting Close's error replace the copy's.
WriteBody_CloseErrFirst(f, d, copyErr, rel) ==
  LET cl == FileClose(f, d, rel)
  IN  [f |-> cl.f, d |-> cl.d, err |-> IF cl.err # NoErr THEN cl.err ELSE copyErr]

\* Write returning the copy's error without a call of Close.
WriteBody_NoCloseOnCopyError(f, d, copyErr, rel) ==
  LET cl == FileClose(f, d, rel)
  IN  IF copyErr # NoErr
      THEN [f |-> f, d |-> d, err |-> copyErr]
      ELSE [f |-> cl.f, d |-> cl.d, err |-> cl.err]

\* Write after io.Copy returned copyErr, lockedfile.go:118-121.
WriteBody(f, d, copyErr, rel) ==
  LET cl == FileClose(f, d, rel)
  IN  [f |-> cl.f, d |-> cl.d, err |-> IF copyErr = NoErr THEN cl.err ELSE copyErr]

\* A File the program no longer refers to: with a finalizer it waits for the
\* finalizer to run, without one the collector reclaims it (what stays on
\* record is whether it was closed and, of a Write, what was written where
\* and the calls of Close on it).
Unreachable(f) ==
  IF f.fin THEN [f EXCEPT !.reach = FALSE]
  ELSE IF f.op = "Write"
       THEN [FreeHandle EXCEPT !.st = "reclaimed", !.closed = f.closed,
                               !.op = f.op, !.name = f.name, !.c = f.c,
                               !.ncloses = f.ncloses]
       ELSE [FreeHandle EXCEPT !.st = "reclaimed", !.closed = f.closed]

\* ------------------------------------------------------------ returns
\* The successful Write that a call of Read by p on n, starting now, follows
\* directly.
After(p, op, n) ==
  IF op = "Read" /\ ret.p = p /\ ret.op = "Write" /\ ret.err = NoErr /\ ret.name = n
  THEN [ok |-> TRUE, c |-> ret.c] ELSE NoWrite

Ret(p, op, n, g, after) ==
  [NoRet EXCEPT !.p = p, !.op = op, !.name = n, !.g = g, !.after = after]

Frame(op, n, h, c, after) ==
  [NoCall EXCEPT !.op = op, !.name = n, !.h = h, !.src = c, !.after = after]

Returns(p, r) ==
  /\ pc' = [pc EXCEPT ![p] = "idle"]
  /\ call' = [call EXCEPT ![p] = NoCall]
  /\ ret' = r

\* OpenFile has returned r (of OpenFile above) to the operation op of p;
\* e is what the primitive reported.
AfterOpenFile(p, op, n, g, c, after, r, e) ==
  IF r.err # NoErr \/ Maker(op) = "OpenFile"
  THEN Returns(p, [Ret(p, op, n, g, after) EXCEPT !.h = r.h, !.err = r.err, !.rel = e, !.c = c])
  ELSE /\ pc' = [pc EXCEPT ![p] = IF op = "Read" THEN "read" ELSE "copy"]
       /\ call' = [call EXCEPT ![p] = Frame(op, n, g, c, after)]
       /\ ret' = NoRet

Alive(p) == ~fatal[p].fired

IsNextFree(h) ==
  /\ handle[h].st = "free"
  /\ \A g \in Handles : g < h => handle[g].st # "free"

\* ------------------------------------------------------------ actions
\* A call of OpenFile(n, flag, perm) by operation op, lockedfile.go:38-46:
\* new(File), then the call of openFile, which returns its open's error at
\* once, or has opened the file, creating it if it was missing, and has not
\* returned yet (it returns in LockGranted or LockFailed).
BeginOpen(p, n, flag, op, c) ==
  /\ Alive(p) /\ pc[p] = "idle"
  /\ \E h \in Handles :
       /\ IsNextFree(h)
       /\ LET f == NewFile(p, n, op, c)
          IN  \/ \E e \in AcquireErrors(files[n], n, flag) :
                   LET r == OpenFile(f, h, e)
                   IN  /\ handle' = [handle EXCEPT ![h] = r.f]
                       /\ AfterOpenFile(p, op, n, h, c, After(p, op, n), r, e)
                       /\ UNCHANGED files
              \/ /\ AcquireErrors(files[n], n, flag) = {}
                 /\ files' = [files EXCEPT ![n] = OpenedFile(@, flag)]
                 /\ handle' = [handle EXCEPT ![h] = f]
                 /\ pc' = [pc EXCEPT ![p] = "lock"]
                 /\ call' = [call EXCEPT ![p] =
                               [Frame(op, n, h, c, After(p, op, n)) EXCEPT !.flag = flag]]
                 /\ ret' = NoRet
  /\ UNCHANGED <<desc, fatal>>

\* lockedfile.go:61-63
Open(p, n) == BeginOpen(p, n, OpenFlag, "Open", << >>)
\* lockedfile.go:66-68
Create(p, n) == BeginOpen(p, n, CreateFlag, "Create", << >>)
\* lockedfile.go:75-77
Edit(p, n) == BeginOpen(p, n, EditFlag, "Edit", << >>)
\* lockedfile.go:99-100
Read(p, n) == BeginOpen(p, n, OpenFlag, "Read", << >>)
\* lockedfile.go:111-112
Write(p, n, c) == BeginOpen(p, n, WriteFlag, "Write", c)
\* lockedfile.go:38: the caller's own OpenFile(n, flag, perm).
CallerOpenFile(p, n, flag) == BeginOpen(p, n, flag, "OpenFile", << >>)

\* openFile succeeds, once the lock table can grant the lock of its flags:
\* it returns the descriptor open and locked, the file emptied if the flags
\* hold O_TRUNC, and OpenFile builds and returns the File,
\* lockedfile.go:43-57.
LockGranted(p) ==
  /\ Alive(p) /\ pc[p] = "lock"
  /\ LET h    == call[p].h
         f    == handle[h]
         flag == call[p].flag
         r    == OpenFile(f, h, NoErr)
     IN  /\ Compatible(desc, f.name, h, LockMode(flag.acc))
         /\ files' = [files EXCEPT ![f.name] = AcquiredFile(@, flag)]
         /\ desc' = [desc EXCEPT ![h] = AcquiredDesc(f.name, flag)]
         /\ handle' = [handle EXCEPT ![h] = r.f]
         /\ AfterOpenFile(p, call[p].op, f.name, h, f.c, call[p].after, r, NoErr)
  /\ UNCHANGED fatal

\* openFile fails to lock: it returns the error and no descriptor; a file
\* its open created stays, empty.  lockedfile.go:43-46.
LockFailed(p) ==
  /\ Alive(p) /\ pc[p] = "lock"
  /\ LET h == call[p].h
         f == handle[h]
         e == ErrLock(f.name)
         r == OpenFile(f, h, e)
     IN  /\ handle' = [handle EXCEPT ![h] = r.f]
         /\ AfterOpenFile(p, call[p].op, f.name, h, f.c, call[p].after, r, e)
  /\ UNCHANGED <<files, desc, fatal>>

\* The caller holds the Files that OpenFile, Open, Create and Edit returned
\* to it.
Held(p, h) ==
  /\ handle[h].st = "returned" /\ handle[h].owner = p /\ handle[h].reach
  /\ handle[h].op = "OpenFile"

\* f.Close() by the caller, lockedfile.go:83-96.
Close(p, h) ==
  /\ Alive(p) /\ pc[p] = "idle" /\ Held(p, h)
  /\ handle[h].ncloses < MaxCloses
  /\ \E rel \in ReleaseErrors(handle[h].name) :
       LET cl == FileClose(handle[h], desc[h], rel)
       IN  /\ handle' = [handle EXCEPT ![h] = cl.f]
           /\ desc' = [desc EXCEPT ![h] = cl.d]
           /\ Returns(p, [Ret(p, "Close", handle[h].name, h, NoWrite) EXCEPT
                            !.err = cl.err, !.rel = rel, !.rels = cl.rels])
  /\ UNCHANGED <<files, fatal>>

\* ioutil.ReadAll(f), lockedfile.go:106: one read that gets a byte.
ReadByte(p) ==
  /\ Alive(p) /\ pc[p] = "read"
  /\ LET h == call[p].h
         r == ReadAt(files[call[p].name].data, desc[h].off)
     IN  /\ ~r.eof
         /\ call' = [call EXCEPT ![p].buf = @ \o r.b]
         /\ desc' = [desc EXCEPT ![h].off = @ + 1]
  /\ ret' = NoRet
  /\ UNCHANGED <<files, handle, pc, fatal>>

\* Read's end, lockedfile.go:104-106: ReadAll returns with readErr, the
\* deferred Close runs, Read returns; f is a local of Read and unreachable
\* once it returns.
ReadFinish(p, readErr) ==
  /\ Alive(p) /\ pc[p] = "read"
  /\ LET h == call[p].h
         n == call[p].name
     IN  \E rel \in ReleaseErrors(n) :
           LET r == ReadBody(handle[h], desc[h], call[p].buf, readErr, rel)
           IN  /\ handle' = [handle EXCEPT ![h] = Unreachable(r.f)]
               /\ desc' = [desc EXCEPT ![h] = r.d]
               /\ Returns(p, [Ret(p, "Read", n, h, call[p].after) EXCEPT
                                !.err = r.err, !.rel = rel, !.data = r.data])
  /\ UNCHANGED <<files, fatal>>

\* A read of ReadAll meets the end of the file.
ReadDone(p) ==
  /\ pc[p] = "read"
  /\ ReadAt(files[call[p].name].data, desc[call[p].h].off).eof
  /\ ReadFinish(p, NoErr)

\* A read of ReadAll fails, at any point.
ReadFailed(p) == ReadFinish(p, ErrRead(call[p].name))

\* A method of the embedded *os.File, lockedfile.go:24-33, returns to the
\* caller that holds File h.
MethodReturns(p, h, op, err, data) ==
  Returns(p, [Ret(p, op, handle[h].name, h, NoWrite) EXCEPT !.err = err, !.data = data])

\* f.Write of the byte b by the caller (WriteString and ReadFrom write the
\* same way): the byte goes to the offset of the descriptor, which moves on;
\* on a File that is closed or not open for writing, the error alone.
FileWrite(p, h, b) ==
  /\ Alive(p) /\ pc[p] = "idle" /\ Held(p, h)
  /\ LET n == handle[h].name
         e == MethodErr(desc[h], "write", n, WriteAccess)
     IN  IF e # NoErr
         THEN /\ MethodReturns(p, h, "File.Write", e, << >>)
              /\ UNCHANGED <<files, desc>>
         ELSE /\ desc[h].off < MaxLen
              /\ files' = [files EXCEPT ![n].data = WriteAt(@, desc[h].off, b)]
              /\ desc' = [desc EXCEPT ![h].off = @ + 1]
              /\ MethodReturns(p, h, "File.Write", NoErr, << >>)
  /\ UNCHANGED <<handle, fatal>>

\* f.WriteAt of the byte b at offset o: the offset of the descriptor stays.
FileWriteAt(p, h, o, b) ==
  /\ Alive(p) /\ pc[p] = "idle" /\ Held(p, h)
  /\ o < MaxLen
  /\ LET n == handle[h].name
         e == MethodErr(desc[h], "write", n, WriteAccess)
     IN  IF e # NoErr
         THEN /\ MethodReturns(p, h, "File.WriteAt", e, << >>)
              /\ UNCHANGED files
         ELSE /\ files' = [files EXCEPT ![n].data = WriteAt(@, o, b)]
              /\ MethodReturns(p, h, "File.WriteAt", NoErr, << >>)
  /\ UNCHANGED <<desc, handle, fatal>>

\* f.Truncate(size): the file is cut or grown to size, the offset stays.
FileTruncate(p, h, size) ==
  /\ Alive(p) /\ pc[p] = "idle" /\ Held(p, h)
  /\ LET n == handle[h].name
         e == MethodErr(desc[h], "truncate", n, WriteAccess)
     IN  IF e # NoErr
         THEN /\ MethodReturns(p, h, "File.Truncate", e, << >>)
              /\ UNCHANGED files
         ELSE /\ files' = [files EXCEPT ![n].data = TruncateTo(@, size)]
              /\ MethodReturns(p, h, "File.Truncate", NoErr, << >>)
  /\ UNCHANGED <<desc, handle, fatal>>

\* f.Seek(o, io.SeekStart): the offset of the descriptor becomes o.
FileSeek(p, h, o) ==
  /\ Alive(p) /\ pc[p] = "idle" /\ Held(p, h)
  /\ LET e == MethodErr(desc[h], "seek", handle[h].name, AnyAccess)
     IN  IF e # NoErr
         THEN /\ MethodReturns(p, h, "File.Seek", e, << >>)
              /\ UNCHANGED desc
         ELSE /\ desc' = [desc EXCEPT ![h].off = o]
              /\ MethodReturns(p, h, "File.Seek", NoErr, << >>)
  /\ UNCHANGED <<files, handle, fatal>>

\* f.Read of one byte by the caller: the byte at the offset, which moves
\* on, or io.EOF at the end of the file; on a File that is closed or not
\* open for reading, the error alone.
FileRead(p, h) ==
  /\ Alive(p) /\ pc[p] = "idle" /\ Held(p, h)
  /\ LET n == handle[h].name
         e == MethodErr(desc[h], "read", n, ReadAccess)
         b == ReadAt(files[n].data, desc[h].off)
     IN  IF e # NoErr
         THEN /\ MethodReturns(p, h, "File.Read", e, << >>)
              /\ UNCHANGED desc
         ELSE IF b.eof
         THEN /\ MethodReturns(p, h, "File.Read", ErrEOF, << >>)
              /\ UNCHANGED desc
         ELSE /\ desc' = [desc EXCEPT ![h].off = @ + 1]
              /\ MethodReturns(p, h, "File.Read", NoErr, b.b)
  /\ UNCHANGED <<files, handle, fatal>>

\* io.Copy(f, content), lockedfile.go:117: one byte written at the offset.
CopyByte(p) ==
  /\ Alive(p) /\ pc[p] = "copy" /\ call[p].src # << >>
  /\ LET h == call[p].h
         n == call[p].name
     IN  /\ files' = [files EXCEPT ![n].data = WriteAt(@, desc[h].off, Head(call[p].src))]
         /\ desc' = [desc EXCEPT ![h].off = @ + 1]
  /\ call' = [call EXCEPT ![p].src = Tail(@)]
  /\ ret' = NoRet
  /\ UNCHANGED <<handle, pc, fatal>>

\* Write's end, lockedfile.go:117-121: io.Copy returns copyErr, Close runs,
\* Write returns; f is a local of Write.
WriteFinish(p, copyErr) ==
  /\ Alive(p) /\ pc[p] = "copy"
  /\ LET h == call[p].h
         n == call[p].name
     IN  \E rel \in ReleaseErrors(n) :
           LET r == WriteBody(handle[h], desc[h], copyErr, rel)
           IN  /\ handle' = [handle EXCEPT ![h] = Unreachable(r.f)]
               /\ desc' = [desc EXCEPT ![h] = r.d]
               /\ Returns(p, [Ret(p, "Write", n, h, NoWrite) EXCEPT
                                !.err = r.err, !.rel = rel, !.cerr = copyErr,
                                !.c = handle[h].c])
  /\ UNCHANGED <<files, fatal>>

\* io.Copy has copied all of content.
CopyDone(p) == call[p].src = << >> /\ WriteFinish(p, NoErr)

\* io.Copy fails, at any point of the copy.
CopyFailed(p) == WriteFinish(p, ErrCopy(call[p].name))

\* The caller drops its last reference to a File it holds.
Drop(p, h) ==
  /\ Alive(p) /\ pc[p] = "idle" /\ Held(p, h)
  /\ handle' = [handle EXCEPT ![h] = Unreachable(@)]
  /\ ret' = NoRet
  /\ UNCHANGED <<files, desc, pc, call, fatal>>

\* A finalizer that closes the descriptor of the File before it panics.
Finalizer_Releases(h) ==
  /\ handle[h].st = "returned" /\ ~handle[h].reach /\ handle[h].fin
  /\ Alive(handle[h].owner)
  /\ fatal' = [fatal EXCEPT ![handle[h].owner] =
                 [NoFatal EXCEPT !.fired = TRUE, !.path = handle[h].name, !.h = h]]
  /\ desc' = [desc EXCEPT ![h] = closeFile(@, NoErr).d]
  /\ ret' = NoRet
  /\ UNCHANGED <<files, handle, pc, call>>

\* The finalizer of an unreachable File runs, lockedfile.go:53-55: the panic
\* aborts the process of the File.
Finalizer(h) ==
  /\ handle[h].st = "returned" /\ ~handle[h].reach /\ handle[h].fin
  /\ Alive(handle[h].owner)
  /\ fatal' = [fatal EXCEPT ![handle[h].owner] =
                 [NoFatal EXCEPT !.fired = TRUE, !.path = handle[h].name, !.h = h]]
  /\ ret' = NoRet
  /\ UNCHANGED <<files, desc, handle, pc, call>>

\* The process the panic ended is gone: the operating system closes its
\* descriptors and drops their locks, lockedfile.go:19-23 and 48-49.
Exit(p) ==
  /\ fatal[p].fired /\ ~fatal[p].exited
  /\ fatal' = [fatal EXCEPT ![p].exited = TRUE]
  /\ desc' = [h \in Handles |-> IF handle[h].owner = p THEN NoDesc ELSE desc[h]]
  /\ ret' = NoRet
  /\ UNCHANGED <<files, handle, pc, call>>

Next ==
  \/ \E p \in Procs, n \in Paths : Open(p, n)
  \/ \E p \in Procs, n \in Paths : Create(p, n)
  \/ \E p \in Procs, n \in Paths : Edit(p, n)
  \/ \E p \in Procs, n \in Paths : Read(p, n)
  \/ \E p \in Procs, n \in Paths, c \in Contents : Write(p, n, c)
  \/ \E p \in Procs, n \in Paths, flag \in Flags : CallerOpenFile(p, n, flag)
  \/ \E p \in Procs : LockGranted(p)
  \/ \E p \in Procs : LockFailed(p)
  \/ \E p \in Procs, h \in Handles : Close(p, h)
  \/ \E p \in Procs, h \in Handles, b \in Bytes : FileWrite(p, h, b)
  \/ \E p \in Procs, h \in Handles, o \in Offsets, b \in Bytes : FileWriteAt(p, h, o, b)
  \/ \E p \in Procs, h \in Handles, size \in Offsets : FileTruncate(p, h, size)
  \/ \E p \in Procs, h \in Handles, o \in Offsets : FileSeek(p, h, o)
  \/ \E p \in Procs, h \in Handles : FileRead(p, h)
  \/ \E p \in Procs : ReadByte(p)
  \/ \E p \in Procs : ReadDone(p)
  \/ \E p \in Procs : ReadFailed(p)
  \/ \E p \in Procs : CopyByte(p)
  \/ \E p \in Procs : CopyDone(p)
  \/ \E p \in Procs : CopyFailed(p)
  \/ \E p \in Procs, h \in Handles : Drop(p, h)
  \/ \E h \in Handles : Finalizer(h)
  \/ \E p \in Procs : Exit(p)

Spec == Init /\ [][Next]_vars

\* Only Read and Write are called, on files that exist at the start.
InitRW == Init /\ \A n \in Paths : files[n].exists

NextRW ==
  \/ \E p \in Procs, n \in Paths : Read(p, n)
  \/ \E p \in Procs, n \in Paths, c \in Contents : Write(p, n, c)
  \/ \E p \in Procs : LockGranted(p)
  \/ \E p \in Procs : LockFailed(p)
  \/ \E p \in Procs : ReadByte(p)
  \/ \E p \in Procs : ReadDone(p)
  \/ \E p \in Procs : ReadFailed(p)
  \/ \E p \in Procs : CopyByte(p)
  \/ \E p \in Procs : CopyDone(p)
  \/ \E p \in Procs : CopyFailed(p)

SpecRW == InitRW /\ [][NextRW]_vars

\* One process alone: no other process touches any path.
Alone == {1}

NextSeq ==
  \/ \E p \in Alone, n \in Paths : Open(p, n)
  \/ \E p \in Alone, n \in Paths : Create(p, n)
  \/ \E p \in Alone, n \in Paths : Edit(p, n)
  \/ \E p \in Alone, n \in Paths : Read(p, n)
  \/ \E p \in Alone, n \in Paths, c \in Contents : Write(p, n, c)
  \/ \E p \in Alone, n \in Paths, flag \in Flags : CallerOpenFile(p, n, flag)
  \/ \E p \in Alone : LockGranted(p)
  \/ \E p \in Alone : LockFailed(p)
  \/ \E p \in Alone, h \in Handles : Close(p, h)
  \/ \E p \in Alone, h \in Handles, b \in Bytes : FileWrite(p, h, b)
  \/ \E p \in Alone, h \in Handles, o \in Offsets, b \in Bytes : FileWriteAt(p, h, o, b)
  \/ \E p \in Alone, h \in Handles, size \in Offsets : FileTruncate(p, h, size)
  \/ \E p \in Alone, h \in Handles, o \in Offsets : FileSeek(p, h, o)
  \/ \E p \in Alone, h \in Handles : FileRead(p, h)
  \/ \E p \in Alone : ReadByte(p)
  \/ \E p \in Alone : ReadDone(p)
  \/ \E p \in Alone : ReadFailed(p)
  \/ \E p \in Alone : CopyByte(p)
  \/ \E p \in Alone : CopyDone(p)
  \/ \E p \in Alone : CopyFailed(p)
  \/ \E p \in Alone, h \in Handles : Drop(p, h)
  \/ \E h \in Handles : Finalizer(h)
  \/ \E p \in Alone : Exit(p)

SpecSeq == Init /\ [][NextSeq]_vars

\* Close by threads that share a File: the statements of Close as steps of
\* their own, with nothing that keeps two threads apart.
Shared(h) ==
  /\ handle[h].st = "returned" /\ handle[h].reach
  /\ handle[h].op = "OpenFile"

\* lockedfile.go:84-90: thread t reads f.closed; set, Close returns the
\* PathError; not set, it goes on.
CloseCheck(t, h) ==
  /\ Alive(t) /\ pc[t] = "idle" /\ Shared(h)
  /\ handle[h].ncloses < MaxCloses
  /\ handle' = [handle EXCEPT ![h].ncloses = @ + 1]
  /\ IF handle[h].closed
     THEN Returns(t, [Ret(t, "Close", handle[h].name, h, NoWrite) EXCEPT
                        !.err = ErrAlreadyClosed(handle[h].name)])
     ELSE /\ pc' = [pc EXCEPT ![t] = "closing"]
          /\ call' = [call EXCEPT ![t] = Frame("Close", handle[h].name, h, << >>, NoWrite)]
          /\ ret' = NoRet
  /\ UNCHANGED <<files, desc, fatal>>

\* lockedfile.go:91: f.closed = true.
CloseSet(t) ==
  /\ Alive(t) /\ pc[t] = "closing"
  /\ handle' = [handle EXCEPT ![call[t].h].closed = TRUE]
  /\ pc' = [pc EXCEPT ![t] = "releasing"]
  /\ ret' = NoRet
  /\ UNCHANGED <<files, desc, call, fatal>>

\* lockedfile.go:93-95: closeFile, SetFinalizer(f, nil), return err.
CloseRelease(t) ==
  /\ Alive(t) /\ pc[t] = "releasing"
  /\ LET h == call[t].h
     IN  \E rel \in ReleaseErrors(call[t].name) :
           LET r == closeFile(desc[h], rel)
           IN  /\ desc' = [desc EXCEPT ![h] = r.d]
               /\ handle' = [handle EXCEPT ![h].fin = FALSE]
               /\ Returns(t, [Ret(t, "Close", call[t].name, h, NoWrite) EXCEPT
                                !.err = r.err, !.rel = rel, !.rels = r.calls])
  /\ UNCHANGED <<files, fatal>>

\* The threads of one process open Files and close them, any thread any File.
NextRace ==
  \/ \E t \in Procs, n \in Paths : Open(t, n)
  \/ \E t \in Procs, n \in Paths : Create(t, n)
  \/ \E t \in Procs, n \in Paths : Edit(t, n)
  \/ \E t \in Procs, n \in Paths, flag \in Flags : CallerOpenFile(t, n, flag)
  \/ \E t \in Procs : LockGranted(t)
  \/ \E t \in Procs : LockFailed(t)
  \/ \E t \in Procs, h \in Handles : CloseCheck(t, h)
  \/ \E t \in Procs : CloseSet(t)
  \/ \E t \in Procs : CloseRelease(t)

SpecRace == Init /\ [][NextRace]_vars

\* The runtime runs the finalizer of an unreachable File sooner or later.
FairSpec == Spec /\ \A h \in Handles : WF_vars(Finalizer(h))

\* -------------------------------------------------------------- claims
\* The File was of a process that is gone.
Gone(h) == \E p \in Procs : handle[h].owner = p /\ fatal[p].exited

\* A File returned by a successful open, not yet closed, of a process that
\* is there.
IsOpen(h) == handle[h].st = "returned" /\ ~handle[h].closed /\ ~Gone(h)

\* Its descriptor is open and holds a lock.
Locked(h) == desc[h].live /\ desc[h].lock # "none"

\* C1: the first Close of a File returns nil or exactly what the primitive's
\* release reported; every later Close returns the PathError with Op "close",
\* the File's name and os.ErrClosed, whatever the first release reported.
C1_CloseResults ==
  ret.op = "Close" =>
    LET f == handle[ret.g]
    IN  IF f.ncloses = 1
        THEN ret.err = ret.rel /\ ret.rel \in ReleaseErrors(f.name)
        ELSE ret.err = PathError("close", f.name, "ErrClosed")

C1_Witness ==
  /\ ret.op = "Close" /\ handle[ret.g].ncloses = 2
  /\ ret.err = PathError("close", handle[ret.g].name, "ErrClosed")

\* C2: while a File opened for writing (by Create, Edit, Write, or OpenFile
\* with O_WRONLY or O_RDWR) is open on a path, no other File is open on that
\* path; so a Create or Edit returns a File only when no other File is open
\* on it.
WriteOpened(h) == desc[h].acc \in {"O_WRONLY", "O_RDWR"}

C2_ExclusiveExcludes ==
  /\ \A h \in Handles :
       (IsOpen(h) /\ WriteOpened(h)) =>
         \A g \in Handles \ {h} : IsOpen(g) => handle[g].name # handle[h].name
  /\ (ret.op \in {"Create", "Edit"} /\ ret.h # NoHandle) =>
       \A g \in Handles \ {ret.h} : IsOpen(g) => handle[g].name # ret.name

\* A Create waits for its lock while a File from Open is open on the path.
C2_Witness ==
  \E p \in Procs, g \in Handles :
    /\ pc[p] = "lock" /\ call[p].op = "Create"
    /\ IsOpen(g) /\ desc[g].acc = "O_RDONLY" /\ handle[g].name = call[p].name
    /\ desc[g].lock = "shared"

\* C3: once Read has returned, on any of its exit paths, the descriptor it
\* opened is closed and holds no lock; no File that failed to open or was
\* reclaimed keeps a descriptor or a lock.
C3_ReadReleases ==
  /\ ret.op = "Read" => (~desc[ret.g].live /\ desc[ret.g].lock = "none")
  /\ \A h \in Handles : handle[h].st \in {"failed", "reclaimed"} => desc[h] = NoDesc

\* A Read whose ReadAll failed and whose release reported an error.
C3_Witness ==
  /\ ret.op = "Read" /\ ret.err = ErrRead(ret.name) /\ ret.rel = ErrRelease(ret.name)
  /\ handle[ret.g].closed

\* C4: after a successful open, Write returns the copy's error when the copy
\* failed (whatever Close returned), Close's error when the copy succeeded,
\* and nil only when both succeeded.
C4_WriteErrorPrecedence ==
  (ret.op = "Write" /\ handle[ret.g].st # "failed") =>
    /\ ret.cerr # NoErr => ret.err = ret.cerr
    /\ ret.cerr = NoErr => ret.err = ret.rel
    /\ ret.err = NoErr <=> (ret.cerr = NoErr /\ ret.rel = NoErr)

\* A Write whose copy and whose close both failed.
C4_Witness ==
  /\ ret.op = "Write" /\ handle[ret.g].st # "failed"
  /\ ret.cerr = ErrCopy(ret.name) /\ ret.rel = ErrRelease(ret.name)
  /\ ret.err = ret.cerr

\* C5: with only Read and Write called on a file that exists, every
\* successful Read returns the content the file started with or the whole
\* content of one Write.
C5_AtomicContent ==
  (ret.op = "Read" /\ ret.err = NoErr) =>
    \/ ret.data = InitContent
    \/ \E h \in Handles :
         handle[h].op = "Write" /\ handle[h].name = ret.name /\ handle[h].c = ret.data

\* C6: a File (of a process that is there) is open exactly when its
\* descriptor is open and locked; the descriptor of a File is never open
\* without its lock, nor its lock held without the descriptor; a closed File
\* has neither.
C6_LockLifetime ==
  \A h \in Handles :
    /\ (handle[h].st = "returned" /\ ~Gone(h)) => (~handle[h].closed <=> Locked(h))
    /\ handle[h].file => (desc[h].live <=> desc[h].lock # "none")
    /\ desc[h].lock # "none" => desc[h].live
    /\ (handle[h].st = "returned" /\ handle[h].closed) => desc[h] = NoDesc

\* A File closed by a Close whose release reported an error.
C6_Witness ==
  /\ ret.op = "Close" /\ ret.rel = ErrRelease(ret.name) /\ ret.err = ret.rel
  /\ handle[ret.g].closed /\ desc[ret.g] = NoDesc

\* C7: when the primitive's acquire fails, OpenFile, Open, Create and Edit
\* return nil
\* and exactly the primitive's error; the File has no finalizer and no
\* descriptor or lock stays behind.
C7_FailedOpen ==
  /\ (ret.op \in {"OpenFile", "Open", "Create", "Edit"} /\ ret.rel # NoErr) =>
       /\ ret.h = NoHandle /\ ret.err = ret.rel
       /\ handle[ret.g].st = "failed"
  /\ \A h \in Handles :
       handle[h].st = "failed" =>
         (~handle[h].fin /\ ~handle[h].file /\ ~handle[h].reach /\ desc[h] = NoDesc)

\* Open of a path that does not exist.
C7_Witness ==
  /\ ret.op = "Open" /\ ret.err = ErrNotExist(ret.name) /\ ret.h = NoHandle
  /\ ~files[ret.name].exists

\* C8: a File on which Close was called has no finalizer, whether the
\* release succeeded or not, and the fatal diagnostic never names it.
C8_DisarmedByFirstClose ==
  /\ \A h \in Handles :
       (handle[h].ncloses >= 1 \/ handle[h].closed) =>
         (~handle[h].fin /\ \A p \in Procs : ~(fatal[p].fired /\ fatal[p].h = h))
  /\ ret.op \in {"Read", "Write", "Close"} => ~handle[ret.g].fin

\* A File whose first Close met a release error, and is unreachable since.
C8_Witness ==
  /\ ret.op = "Close" /\ ret.rel = ErrRelease(ret.name)
  /\ handle[ret.g].ncloses = 1 /\ ~handle[ret.g].fin

\* A File that became unreachable with its finalizer set.
Leaked(h) == handle[h].st = "returned" /\ ~handle[h].reach /\ handle[h].fin

Diagnosed(h) == \E p \in Procs : fatal[p].fired /\ fatal[p].h = h

Aborted(h) == \E p \in Procs : handle[h].owner = p /\ fatal[p].fired

\* The finalizer is set exactly on the Files a successful open returned and
\* no Close was called on.
ArmedExactly ==
  \A h \in Handles :
    handle[h].fin <=> (handle[h].st = "returned" /\ handle[h].ncloses = 0)

\* The diagnostic names the path of a File of the process that became
\* unreachable open, Close never called.
FatalOnlyLeaked ==
  \A p \in Procs :
    fatal[p].fired =>
      LET f == handle[fatal[p].h]
      IN  /\ f.st = "returned" /\ f.owner = p /\ ~f.reach
          /\ ~f.closed /\ f.ncloses = 0 /\ fatal[p].path = f.name

\* C9 as stated: every File that became unreachable open gets the fatal
\* diagnostic.
C9_EveryLeakDiagnosed ==
  \A h \in Handles : Leaked(h) ~> Diagnosed(h)

\* C9: the finalizer is set exactly on the Files a successful open returned;
\* the diagnostic fires only for a File that became unreachable open; and
\* the process of every such File is in the end aborted by a diagnostic (the
\* first one aborts it, so another leaked File of it gets none of its own).
C9_LeakDetection ==
  /\ [](ArmedExactly /\ FatalOnlyLeaked)
  /\ \A h \in Handles : Leaked(h) ~> Aborted(h)

\* Two leaked Files of one process, one of them diagnosed.
C9_Witness ==
  \E h, g \in Handles :
    /\ h # g /\ Leaked(h) /\ Leaked(g) /\ handle[h].owner = handle[g].owner
    /\ Diagnosed(h) /\ ~Diagnosed(g)

\* C10: a Read that directly follows a Write of c that returned nil, on the
\* same path and with no other process at work, returns exactly c.
C10_RoundTrip ==
  (ret.op = "Read" /\ ret.err = NoErr /\ ret.after.ok) => ret.data = ret.after.c

\* A round trip of a content shorter than what the file held at the start.
C10_Witness ==
  /\ ret.op = "Read" /\ ret.err = NoErr /\ ret.after.ok
  /\ ret.data = ret.after.c /\ Len(ret.data) < MaxLen

\* The Files that hold a lock on path n, other than h.
HoldersOn(n, h) == {g \in Handles \ {h} : Locked(g) /\ desc[g].path = n}

\* C11: an Open that waits for its lock, on a path where every
\* lock held is that of a File opened read-only (a File from Open, Read's
\* File), is not blocked: the lock can be granted at once, so two Files from
\* Open are open on one path at the same time.
C11_SharedNeverBlocks ==
  \A p \in Procs :
    (Alive(p) /\ pc[p] = "lock" /\ call[p].op = "Open"
       /\ \A g \in HoldersOn(call[p].name, call[p].h) : desc[g].acc = "O_RDONLY")
      => ENABLED LockGranted(p)

\* Two Files from Open, of two processes, open on one path at once.
C11_Witness ==
  \E h, g \in Handles :
    /\ h # g /\ IsOpen(h) /\ IsOpen(g)
    /\ handle[h].op = "OpenFile" /\ desc[h].acc = "O_RDONLY"
    /\ handle[h].owner # handle[g].owner /\ handle[h].name = handle[g].name
    /\ desc[h].lock = "shared" /\ desc[g].lock = "shared"
    /\ ret.op = "Open" /\ ret.h = g

\* The lock a File holds by the operation that opened it.
ModeOf(op) == IF op \in {"Open", "Read"} THEN "shared" ELSE "exclusive"

\* C12: a File that is open holds the lock its open asked for, exclusive
\* exactly when the flags ask for write access: shared from Open (and in
\* Read), exclusive from Create and Edit (and in Write); and no step changes
\* the lock of a File that stays open.
C12_LockModeFixed ==
  /\ [](\A h \in Handles :
          IsOpen(h) => /\ desc[h].lock \in {"shared", "exclusive"}
                       /\ (desc[h].lock = "exclusive" <=> WriteOpened(h)))
  /\ []((ret.op \in {"Open", "Create", "Edit"} /\ ret.h # NoHandle)
          => desc[ret.h].lock = ModeOf(ret.op))
  /\ [](\A p \in Procs :
          (pc[p] \in {"read", "copy"} /\ ~fatal[p].exited)
            => desc[call[p].h].lock = ModeOf(call[p].op))
  /\ [][\A h \in Handles : (IsOpen(h) /\ IsOpen(h)') => desc'[h].lock = desc[h].lock]_vars

\* A Write in the middle of its copy: the lock is as it was granted.
C12_Witness ==
  \E p \in Procs :
    /\ pc[p] = "copy" /\ desc[call[p].h].off > 0
    /\ IsOpen(call[p].h) /\ desc[call[p].h].lock = "exclusive"

C14_ClosedMonotonic ==
  /\ []((ret.op \in {"OpenFile", "Open", "Create", "Edit"} /\ ret.h # NoHandle)
          => (~handle[ret.h].closed /\ handle[ret.h].ncloses = 0))
  /\ [](\A h \in Handles :
          handle[h].st \in {"free", "opening", "failed"} => ~handle[h].closed)
  /\ [][\A h \in Handles : handle[h].closed => handle'[h].closed]_vars
  /\ [][\A h \in Handles :
          (~handle[h].closed /\ handle'[h].closed)
            => (ret'.op \in {"Close", "Read", "Write"} /\ ret'.g = h)]_vars

\* A second Close has returned and the flag is still set.
C14_Witness ==
  /\ ret.op = "Close" /\ ret.err = ErrAlreadyClosed(ret.name)
  /\ handle[ret.g].closed /\ handle[ret.g].st = "returned"

\* C15: when the open of a Write succeeded, the Write has called Close on
\* its File exactly once by the time it returns, whether the copy failed or
\* not: the File is closed, without finalizer, its descriptor released; a
\* File of a Read or of a Write is never left behind open, and the fatal
\* diagnostic never names one.
C15_WriteCloses ==
  /\ (ret.op = "Write" /\ handle[ret.g].st # "failed") =>
       LET f == handle[ret.g]
       IN  /\ f.st = "reclaimed" /\ f.closed /\ f.ncloses = 1 /\ ~f.fin
           /\ desc[ret.g] = NoDesc
  /\ \A h \in Handles :
       (handle[h].op \in {"Read", "Write"} /\ handle[h].st = "returned") =>
         /\ \E p \in Procs : pc[p] \in {"read", "copy"} /\ call[p].h = h
         /\ handle[h].ncloses = 0 /\ handle[h].reach
  /\ \A p \in Procs :
       fatal[p].fired => handle[fatal[p].h].op \notin {"Read", "Write"}

\* A Write whose copy failed after it wrote a byte, and whose Close failed.
C15_Witness ==
  /\ ret.op = "Write" /\ ret.cerr = ErrCopy(ret.name) /\ ret.rel = ErrRelease(ret.name)
  /\ handle[ret.g].closed /\ handle[ret.g].ncloses = 1
  /\ files[ret.name].data # << >>

\* C16: a Close of a File that is already closed returns the already-closed
\* error and changes nothing else: it does not invoke the primitive's
\* release, and the finalizer, the closed flag, the descriptors, the locks
\* and the files are as before; over the calls of Close on a File the
\* release is invoked exactly once, by the first.
C16_ClosedCloseNoOp ==
  /\ [](ret.op = "Close" =>
          ret.rels = IF handle[ret.g].ncloses = 1 THEN 1 ELSE 0)
  /\ [][\A h \in Handles :
          (handle[h].closed /\ ret'.op = "Close" /\ ret'.g = h
             /\ handle'[h].ncloses = handle[h].ncloses + 1)
            => /\ ret'.err = ErrAlreadyClosed(handle[h].name) /\ ret'.rels = 0
               /\ handle' = [handle EXCEPT ![h].ncloses = @ + 1]
               /\ desc' = desc /\ files' = files /\ fatal' = fatal]_vars

\* A second Close, while another File holds a lock on the path.
C16_Witness ==
  /\ ret.op = "Close" /\ handle[ret.g].ncloses = 2 /\ ret.rels = 0
  /\ \E g \in Handles \ {ret.g} : Locked(g) /\ desc[g].path = ret.name

\* C18: the step in which the finalizer fires only produces the diagnostic:
\* it changes no File (the closed flag and the finalizer included), no
\* descriptor, no lock and no file, and the File it names is left not closed,
\* its descriptor open and its lock held.
C18_FinalizerRecoversNothing ==
  [][\A p \in Procs :
       (~fatal[p].fired /\ fatal'[p].fired)
         => /\ handle' = handle /\ desc' = desc /\ files' = files
            /\ pc' = pc /\ call' = call
            /\ ~handle'[fatal'[p].h].closed
            /\ desc'[fatal'[p].h].live /\ desc'[fatal'[p].h].lock # "none"]_vars

\* The diagnostic has fired for a File that holds an exclusive lock; the
\* process is not gone yet, and the Open of another process waits.
C18_Witness ==
  \E p, q \in Procs :
    /\ fatal[p].fired /\ ~fatal[p].exited
    /\ desc[fatal[p].h].lock = "exclusive"
    /\ pc[q] = "lock" /\ call[q].op = "Open" /\ call[q].name = fatal[p].path

\* C19: when threads call Close on one open File and their steps
\* interleave, the primitive's release is invoked at most once on the File
\* and at most one call returns something other than the already-closed
\* error: a call that gets to the release (the only kind that returns
\* something else) finds the descriptor not yet released.
C19_RacingCloseOnce ==
  [][\A t \in Procs :
       (pc[t] = "releasing" /\ pc'[t] = "idle" /\ ret'.op = "Close" /\ ret'.rels > 0)
         => desc[call[t].h].live]_vars

====
